---- MODULE Spec2Model ----
(***************************************************************************)
(* CarbonCertifier (certificate registry) and CarbonToken (token ledger),  *)
(* the two Soroban contracts of the CARBONXO project, as one state machine.*)
(*                                                                         *)
(* Every public entry point is an operator over a storage record S that    *)
(* follows the Rust code statement by statement and returns                *)
(*   [res, st, bridge, by, rec]                                            *)
(* where st is the storage at the point where the entry point returned or  *)
(* trapped.  The host commits st only when res = "Ok"; a contract error or *)
(* a trap (failed require_auth, checked-arithmetic overflow, failed        *)
(* env.invoke_contract) makes the host discard the writes of the call.     *)
(***************************************************************************)
EXTENDS Integers, Sequences, FiniteSets, TLC

\* ---------------------------------------------------------------- bounds
\* certificate ids are 1..MaxId
MaxId == 2
\* the 128-bit integer types are scaled down to Bits bits
Bits == 3

\* ------------------------------------------------------------ input sets
Ids == 1..MaxId
Users == {"u1", "u2"}
\* the address of the CarbonCertifier contract itself
Registry == "registry"
NoAddress == "none"
\* contract references that set_token_contract_id may be given: the
\* deployed CarbonToken and an address where no contract is deployed
Token == "token"
Bogus == "bogus"
TokenRefs == {Token, Bogus}

U128Max == 2^Bits - 1
I128Max == 2^(Bits - 1) - 1
I128Min == 0 - 2^(Bits - 1)

\* `x as i128` for an u128 x: two's complement reinterpretation
as_i128(x) == IF x > I128Max THEN x - 2^Bits ELSE x

\* (co2e_tons, hectares_not_burned) of the records offered to mint: the two
\* invalid shapes, two valid ones within the signed range of the ledger, and
\* one whose tonnage is above it
Measures == {<<0, 1>>, <<1, 0>>, <<1, 1>>, <<I128Max, 1>>, <<U128Max - 1, 1>>}
\* (farmer_address, verifier_address) of the records offered to mint
Parties == {<<"u1", "u2">>, <<"u2", "u1">>}
VerificationRecord ==
    {[co2e_tons |-> m[1], hectares_not_burned |-> m[2],
      farmer_address |-> p[1], verifier_address |-> p[2]] :
        m \in Measures, p \in Parties}
\* the addresses that signed a transaction
Signers == {{u} : u \in Users}
Amounts == {-1, 0, 1, I128Max}

NoRecord == [co2e_tons |-> 0, hectares_not_burned |-> 0,
             farmer_address |-> NoAddress, verifier_address |-> NoAddress]

\* ----------------------------------------------------------------- state
VARIABLES
    certificates,       \* DataKey::Certificates(id)      -> VerificationRecord
    certificateOwner,   \* DataKey::CertificateOwner(id)  -> Address
    farmerCertList,     \* DataKey::FarmerCertList(addr)  -> Vec<u32>
    verifierCertList,   \* DataKey::VerifierCertList(addr)-> Vec<u32>
    totalCertificates,  \* DataKey::TotalCertificates (absent reads as 0)
    totalCO2e,          \* DataKey::TotalCO2e         (absent reads as 0)
    admin,              \* DataKey::Admin of the registry, NoAddress if unset
    tokenContractId,    \* DataKey::TokenContractId, NoAddress if unset
    tokenAdmin,         \* DataKey::Admin of the token ledger
    balances,           \* DataKey::Balance(addr)          (absent reads as 0)
    allowances,         \* DataKey::Allowance(owner, spender)
    last,               \* the last call: entry point, id, result
    spending            \* history: for each (owner, spender), the amount of
                        \* the last approve and what transfer_from has
                        \* moved since

storeVars == <<certificates, certificateOwner, farmerCertList, verifierCertList,
               totalCertificates, totalCO2e, admin, tokenContractId,
               tokenAdmin, balances, allowances>>
vars == <<certificates, certificateOwner, farmerCertList, verifierCertList,
          totalCertificates, totalCO2e, admin, tokenContractId,
          tokenAdmin, balances, allowances, last, spending>>

\* the storage of both contracts as one record
Store ==
    [certificates |-> certificates, certificateOwner |-> certificateOwner,
     farmerCertList |-> farmerCertList, verifierCertList |-> verifierCertList,
     totalCertificates |-> totalCertificates, totalCO2e |-> totalCO2e,
     admin |-> admin, tokenContractId |-> tokenContractId,
     tokenAdmin |-> tokenAdmin, balances |-> balances,
     allowances |-> allowances]

\* ------------------------------------------------- key/value storage port
\* a persistent map is a function whose domain is the set of keys present
Has(f, k) == k \in DOMAIN f
Put(f, k, v) == [x \in (DOMAIN f) \cup {k} |-> IF x = k THEN v ELSE f[x]]
Remove(f, k) == [x \in (DOMAIN f) \ {k} |-> f[x]]
EmptyMap == [x \in {} |-> 0]

\* results of an entry point
Result(res, st, bridge, by, rec) ==
    [res |-> res, st |-> st, bridge |-> bridge, by |-> by, rec |-> rec]
Ok(st, by, rec) == Result("Ok", st, "none", by, rec)
Fail(res, st) == Result(res, st, "none", NoAddress, NoRecord)

\* ------------------------------------------------------------ TokenLedger
\* CarbonToken::get_balance / set_balance
get_balance(S, address) == S.balances[address]
set_balance(S, address, balance) == [S EXCEPT !.balances[address] = balance]

\* CarbonToken::balance
balance(S, id) == get_balance(S, id)

\* CarbonToken::allowance
allowance(S, from, spender) == S.allowances[<<from, spender>>]

\* checked i128 arithmetic: a result outside the type traps
FitsI128(x) == I128Min <= x /\ x <= I128Max
FitsU128(x) == 0 <= x /\ x <= U128Max

\* CarbonToken::initialize
token_initialize(S, new_admin) ==
    IF S.tokenAdmin # NoAddress
    THEN Fail("NotInitialized", S)
    ELSE Ok([S EXCEPT !.tokenAdmin = new_admin], NoAddress, NoRecord)

\* CarbonToken::require_admin; auth is the set of addresses that have
\* authorized the invocation
require_admin(S, auth) ==
    IF S.tokenAdmin = NoAddress THEN "NotInitialized"
    ELSE IF S.tokenAdmin \notin auth THEN "AuthTrap"
    ELSE "Ok"

\* mint without require_admin
mint_unguarded(S, auth, to, amount) ==
    IF amount <= 0 THEN Fail("InvalidAmount", S)
    ELSE LET current_balance == get_balance(S, to)
             new_balance == current_balance + amount
         IN IF ~FitsI128(new_balance) THEN Fail("OverflowTrap", S)
            ELSE Ok(set_balance(S, to, new_balance), S.tokenAdmin, NoRecord)

\* CarbonToken::mint
mint(S, auth, to, amount) ==
    IF require_admin(S, auth) # "Ok" THEN Fail(require_admin(S, auth), S)
    ELSE IF amount <= 0 THEN Fail("InvalidAmount", S)
    ELSE LET current_balance == get_balance(S, to)
             new_balance == current_balance + amount
         IN IF ~FitsI128(new_balance) THEN Fail("OverflowTrap", S)
            ELSE Ok(set_balance(S, to, new_balance), S.tokenAdmin, NoRecord)

\* transfer that reads the recipient's balance before the debit is stored
transfer_stale_credit(S, auth, from, to, amount) ==
    IF from \notin auth THEN Fail("AuthTrap", S)
    ELSE IF amount <= 0 THEN Fail("InvalidAmount", S)
    ELSE LET from_balance == get_balance(S, from)
             to_balance == get_balance(S, to)
         IN IF from_balance < amount THEN Fail("InsufficientBalance", S)
            ELSE LET s1 == set_balance(S, from, from_balance - amount)
                 IN IF ~FitsI128(to_balance + amount)
                    THEN Fail("OverflowTrap", s1)
                    ELSE Ok(set_balance(s1, to, to_balance + amount),
                            from, NoRecord)

\* transfer without the balance guard
transfer_unguarded(S, auth, from, to, amount) ==
    IF from \notin auth THEN Fail("AuthTrap", S)
    ELSE IF amount <= 0 THEN Fail("InvalidAmount", S)
    ELSE LET from_balance == get_balance(S, from)
             s1 == set_balance(S, from, from_balance - amount)
             to_balance == get_balance(s1, to)
         IN IF ~FitsI128(from_balance - amount) \/ ~FitsI128(to_balance + amount)
            THEN Fail("OverflowTrap", s1)
            ELSE Ok(set_balance(s1, to, to_balance + amount), from, NoRecord)

\* CarbonToken::transfer
transfer(S, auth, from, to, amount) ==
    IF from \notin auth THEN Fail("AuthTrap", S)
    ELSE IF amount <= 0 THEN Fail("InvalidAmount", S)
    ELSE LET from_balance == get_balance(S, from)
         IN IF from_balance < amount THEN Fail("InsufficientBalance", S)
            ELSE LET s1 == set_balance(S, from, from_balance - amount)
                     to_balance == get_balance(s1, to)
                 IN IF ~FitsI128(to_balance + amount)
                    THEN Fail("OverflowTrap", s1)
                    ELSE Ok(set_balance(s1, to, to_balance + amount),
                            from, NoRecord)

\* approve that adds to the stored allowance
approve_accumulates(S, auth, from, spender, amount) ==
    IF from \notin auth THEN Fail("AuthTrap", S)
    ELSE IF amount < 0 THEN Fail("InvalidAmount", S)
    ELSE Ok([S EXCEPT !.allowances[<<from, spender>>] = @ + amount],
            from, NoRecord)

\* approve without from.require_auth()
approve_unchecked(S, auth, from, spender, amount) ==
    IF amount < 0 THEN Fail("InvalidAmount", S)
    ELSE Ok([S EXCEPT !.allowances[<<from, spender>>] = amount],
            from, NoRecord)

\* approve that turns down the amount 0 as well
approve_rejects_zero(S, auth, from, spender, amount) ==
    IF from \notin auth THEN Fail("AuthTrap", S)
    ELSE IF amount <= 0 THEN Fail("InvalidAmount", S)
    ELSE Ok([S EXCEPT !.allowances[<<from, spender>>] = amount],
            from, NoRecord)

\* CarbonToken::approve
approve(S, auth, from, spender, amount) ==
    IF from \notin auth THEN Fail("AuthTrap", S)
    ELSE IF amount < 0 THEN Fail("InvalidAmount", S)
    ELSE Ok([S EXCEPT !.allowances[<<from, spender>>] = amount],
            from, NoRecord)

\* transfer_from that leaves the allowance as it was
transfer_from_keeps_allowance(S, auth, spender, from, to, amount) ==
    IF spender \notin auth THEN Fail("AuthTrap", S)
    ELSE IF amount <= 0 THEN Fail("InvalidAmount", S)
    ELSE LET from_balance == get_balance(S, from)
             current_allowance == allowance(S, from, spender)
         IN IF from_balance < amount THEN Fail("InsufficientBalance", S)
            ELSE IF current_allowance < amount
            THEN Fail("InsufficientAllowance", S)
            ELSE LET s1 == set_balance(S, from, from_balance - amount)
                     to_balance == get_balance(s1, to)
                 IN IF ~FitsI128(to_balance + amount)
                    THEN Fail("OverflowTrap", s1)
                    ELSE Ok(set_balance(s1, to, to_balance + amount),
                            spender, NoRecord)

\* transfer_from that asks for some allowance, not for enough of it
transfer_from_any_allowance(S, auth, spender, from, to, amount) ==
    IF spender \notin auth THEN Fail("AuthTrap", S)
    ELSE IF amount <= 0 THEN Fail("InvalidAmount", S)
    ELSE LET from_balance == get_balance(S, from)
             current_allowance == allowance(S, from, spender)
         IN IF from_balance < amount THEN Fail("InsufficientBalance", S)
            ELSE IF current_allowance <= 0
            THEN Fail("InsufficientAllowance", S)
            ELSE LET s1 == set_balance(S, from, from_balance - amount)
                     to_balance == get_balance(s1, to)
                 IN IF ~FitsI128(to_balance + amount)
                    THEN Fail("OverflowTrap", s1)
                    ELSE LET s2 == set_balance(s1, to, to_balance + amount)
                             new_allowance == current_allowance - amount
                         IN Ok([s2 EXCEPT !.allowances[<<from, spender>>] =
                                    new_allowance],
                               spender, NoRecord)

\* transfer_from with the allowance checked after the balances were moved
transfer_from_late_check(S, auth, spender, from, to, amount) ==
    IF spender \notin auth THEN Fail("AuthTrap", S)
    ELSE IF amount <= 0 THEN Fail("InvalidAmount", S)
    ELSE LET from_balance == get_balance(S, from)
             current_allowance == allowance(S, from, spender)
         IN IF from_balance < amount THEN Fail("InsufficientBalance", S)
            ELSE LET s1 == set_balance(S, from, from_balance - amount)
                     to_balance == get_balance(s1, to)
                 IN IF ~FitsI128(to_balance + amount)
                    THEN Fail("OverflowTrap", s1)
                    ELSE LET s2 == set_balance(s1, to, to_balance + amount)
                             new_allowance == current_allowance - amount
                         IN IF current_allowance < amount
                            THEN Fail("InsufficientAllowance", s2)
                            ELSE Ok([s2 EXCEPT
                                       !.allowances[<<from, spender>>] =
                                           new_allowance],
                                    spender, NoRecord)

\* transfer_from that asks the owner of the balance, not the spender, to
\* authorize
transfer_from_owner_auth(S, auth, spender, from, to, amount) ==
    IF from \notin auth THEN Fail("AuthTrap", S)
    ELSE IF amount <= 0 THEN Fail("InvalidAmount", S)
    ELSE LET from_balance == get_balance(S, from)
             current_allowance == allowance(S, from, spender)
         IN IF from_balance < amount THEN Fail("InsufficientBalance", S)
            ELSE IF current_allowance < amount
            THEN Fail("InsufficientAllowance", S)
            ELSE LET s1 == set_balance(S, from, from_balance - amount)
                     to_balance == get_balance(s1, to)
                 IN IF ~FitsI128(to_balance + amount)
                    THEN Fail("OverflowTrap", s1)
                    ELSE LET s2 == set_balance(s1, to, to_balance + amount)
                             new_allowance == current_allowance - amount
                         IN Ok([s2 EXCEPT !.allowances[<<from, spender>>] =
                                    new_allowance],
                               spender, NoRecord)

\* transfer_from that neither checks nor lowers the allowance
transfer_from_unmetered(S, auth, spender, from, to, amount) ==
    IF spender \notin auth THEN Fail("AuthTrap", S)
    ELSE IF amount <= 0 THEN Fail("InvalidAmount", S)
    ELSE LET from_balance == get_balance(S, from)
         IN IF from_balance < amount THEN Fail("InsufficientBalance", S)
            ELSE LET s1 == set_balance(S, from, from_balance - amount)
                     to_balance == get_balance(s1, to)
                 IN IF ~FitsI128(to_balance + amount)
                    THEN Fail("OverflowTrap", s1)
                    ELSE Ok(set_balance(s1, to, to_balance + amount),
                            spender, NoRecord)

\* CarbonToken::transfer_from
transfer_from(S, auth, spender, from, to, amount) ==
    IF spender \notin auth THEN Fail("AuthTrap", S)
    ELSE IF amount <= 0 THEN Fail("InvalidAmount", S)
    ELSE LET from_balance == get_balance(S, from)
             current_allowance == allowance(S, from, spender)
         IN IF from_balance < amount THEN Fail("InsufficientBalance", S)
            ELSE IF current_allowance < amount
            THEN Fail("InsufficientAllowance", S)
            ELSE LET s1 == set_balance(S, from, from_balance - amount)
                     to_balance == get_balance(s1, to)
                 IN IF ~FitsI128(to_balance + amount)
                    THEN Fail("OverflowTrap", s1)
                    ELSE LET s2 == set_balance(s1, to, to_balance + amount)
                             new_allowance == current_allowance - amount
                         IN Ok([s2 EXCEPT !.allowances[<<from, spender>>] =
                                    new_allowance],
                               spender, NoRecord)

\* ---------------------------------------------------- CertificateRegistry
\* CarbonCertifier::increment_certificate_count
increment_certificate_count(S) ==
    [S EXCEPT !.totalCertificates = S.totalCertificates + 1]

\* CarbonCertifier::add_co2e_to_total (the u128 addition is checked by the
\* caller of this operator: an overflow traps before the set)
add_co2e_to_total(S, co2e_tons) ==
    [S EXCEPT !.totalCO2e = S.totalCO2e + co2e_tons]

\* decrement_certificate_count with the guard off by one
decrement_certificate_count_off_by_one(S) ==
    IF S.totalCertificates > 1
    THEN [S EXCEPT !.totalCertificates = S.totalCertificates - 1]
    ELSE S

\* CarbonCertifier::decrement_certificate_count
decrement_certificate_count(S) ==
    IF S.totalCertificates > 0
    THEN [S EXCEPT !.totalCertificates = S.totalCertificates - 1]
    ELSE S

\* subtract_co2e_from_total with a strict guard
subtract_co2e_from_total_strict(S, co2e_tons) ==
    IF S.totalCO2e > co2e_tons
    THEN [S EXCEPT !.totalCO2e = S.totalCO2e - co2e_tons]
    ELSE S

\* CarbonCertifier::subtract_co2e_from_total
subtract_co2e_from_total(S, co2e_tons) ==
    IF S.totalCO2e >= co2e_tons
    THEN [S EXCEPT !.totalCO2e = S.totalCO2e - co2e_tons]
    ELSE S

\* the index map selected by is_farmer
IndexOf(S, is_farmer) ==
    IF is_farmer THEN S.farmerCertList ELSE S.verifierCertList

SetIndex(S, is_farmer, actor_address, cert_list) ==
    IF is_farmer
    THEN [S EXCEPT !.farmerCertList = Put(@, actor_address, cert_list)]
    ELSE [S EXCEPT !.verifierCertList = Put(@, actor_address, cert_list)]

\* get(&key).unwrap_or(Vec::new(&env)) on an index list
GetList(S, is_farmer, actor_address) ==
    IF Has(IndexOf(S, is_farmer), actor_address)
    THEN IndexOf(S, is_farmer)[actor_address]
    ELSE <<>>

\* CarbonCertifier::add_to_index
add_to_index(S, actor_address, certificate_id, is_farmer) ==
    LET cert_list == GetList(S, is_farmer, actor_address)
    IN SetIndex(S, is_farmer, actor_address, Append(cert_list, certificate_id))

\* the loop of remove_from_index: the first position holding certificate_id,
\* 0 when there is none (positions are 1-based here)
find_index(cert_list, certificate_id) ==
    LET hits == {i \in 1..Len(cert_list) : cert_list[i] = certificate_id}
    IN IF hits = {} THEN 0
       ELSE CHOOSE i \in hits : \A j \in hits : i <= j

\* pop_back without the swap
swap_and_pop_no_swap(cert_list, index) ==
    SubSeq(cert_list, 1, Len(cert_list) - 1)

\* swap-and-pop that fills the hole with the first element
swap_and_pop_first_into_hole(cert_list, index) ==
    LET last_index == Len(cert_list)
        swapped == IF index < last_index
                   THEN [cert_list EXCEPT ![index] = cert_list[1]]
                   ELSE cert_list
    IN SubSeq(swapped, 1, last_index - 1)

\* the swap-and-pop of remove_from_index at a found position
swap_and_pop(cert_list, index) ==
    LET last_index == Len(cert_list)
        swapped == IF index < last_index
                   THEN [cert_list EXCEPT ![index] = cert_list[last_index]]
                   ELSE cert_list
    IN SubSeq(swapped, 1, last_index - 1)

\* remove_from_index that always reads and writes the farmer's key
remove_from_index_farmer_key(S, actor_address, certificate_id, is_farmer) ==
    IF ~Has(IndexOf(S, TRUE), actor_address) THEN S
    ELSE LET cert_list == IndexOf(S, TRUE)[actor_address]
             index == find_index(cert_list, certificate_id)
         IN IF index = 0 THEN S
            ELSE SetIndex(S, TRUE, actor_address,
                          swap_and_pop(cert_list, index))

\* CarbonCertifier::remove_from_index
remove_from_index(S, actor_address, certificate_id, is_farmer) ==
    IF ~Has(IndexOf(S, is_farmer), actor_address) THEN S
    ELSE LET cert_list == IndexOf(S, is_farmer)[actor_address]
             index == find_index(cert_list, certificate_id)
         IN IF index = 0 THEN S
            ELSE SetIndex(S, is_farmer, actor_address,
                          swap_and_pop(cert_list, index))

\* initialize that stores the admin whether or not one is stored
initialize_overwrites(S, new_admin) ==
    Ok([S EXCEPT !.admin = new_admin], NoAddress, NoRecord)

\* CarbonCertifier::initialize
initialize(S, new_admin) ==
    IF S.admin # NoAddress
    THEN Fail("AlreadyExists", S)
    ELSE Ok([S EXCEPT !.admin = new_admin], NoAddress, NoRecord)

\* set_token_contract_id that accepts any address that has signed
set_token_contract_id_any_signer(S, auth, caller_admin, token_id) ==
    IF caller_admin \notin auth THEN Fail("AuthTrap", S)
    ELSE Ok([S EXCEPT !.tokenContractId = token_id], caller_admin, NoRecord)

\* set_token_contract_id that keeps a reference that is already stored
set_token_contract_id_write_once(S, auth, caller_admin, token_id) ==
    IF caller_admin \notin auth THEN Fail("AuthTrap", S)
    ELSE IF S.admin = NoAddress THEN Fail("NotAuthorized", S)
    ELSE IF S.admin # caller_admin THEN Fail("NotAuthorized", S)
    ELSE IF S.tokenContractId # NoAddress THEN Ok(S, caller_admin, NoRecord)
    ELSE Ok([S EXCEPT !.tokenContractId = token_id], caller_admin, NoRecord)

\* CarbonCertifier::set_token_contract_id
set_token_contract_id(S, auth, caller_admin, token_id) ==
    IF caller_admin \notin auth THEN Fail("AuthTrap", S)
    ELSE IF S.admin = NoAddress THEN Fail("NotAuthorized", S)
    ELSE IF S.admin # caller_admin THEN Fail("NotAuthorized", S)
    ELSE Ok([S EXCEPT !.tokenContractId = token_id], caller_admin, NoRecord)

\* CarbonCertifier::get_certificate_data
get_certificate_data(S, certificate_id) ==
    IF Has(S.certificates, certificate_id)
    THEN <<"Ok", S.certificates[certificate_id]>>
    ELSE <<"NotFound", NoRecord>>

\* CarbonCertifier::get_certificate_owner
get_certificate_owner(S, certificate_id) ==
    IF ~Has(S.certificates, certificate_id) THEN <<"NotFound", NoAddress>>
    ELSE IF Has(S.certificateOwner, certificate_id)
    THEN <<"Ok", S.certificateOwner[certificate_id]>>
    ELSE <<"NotFound", NoAddress>>

\* CarbonCertifier::get_total_certificates
get_total_certificates(S) == S.totalCertificates

\* CarbonCertifier::get_total_co2e
get_total_co2e(S) == S.totalCO2e

\* the nested call made with try_invoke_contract and its error dropped: a
\* failing callee leaves the caller running on the storage it had
invoke_token_mint_try(S, auth, to, amount) ==
    IF S.tokenContractId = Token
       /\ mint(S, auth \cup {Registry}, to, amount).res = "Ok"
    THEN mint(S, auth \cup {Registry}, to, amount)
    ELSE Ok(S, NoAddress, NoRecord)

\* env.invoke_contract(&token_contract_id, "mint", args): the nested call
\* runs with the registry as invoker, so the registry's own address counts
\* as authorized; a reference with no deployed contract traps
invoke_token_mint(S, auth, to, amount) ==
    IF S.tokenContractId = Token
    THEN mint(S, auth \cup {Registry}, to, amount)
    ELSE Fail("NoContract", S)

\* the cross-contract block crediting the verifier instead of the farmer
bridge_mint_to_verifier(S, auth, record) ==
    IF S.tokenContractId = NoAddress
    THEN Result("Ok", S, "none", NoAddress, NoRecord)
    ELSE LET amount == as_i128(record.co2e_tons)
             r == invoke_token_mint(S, auth, record.verifier_address, amount)
         IN IF r.res = "Ok"
            THEN Result("Ok", r.st, "Ok", NoAddress, NoRecord)
            ELSE Result("BridgeTrap", S, r.res, NoAddress, NoRecord)

\* the cross-contract block made with try_invoke_contract and its failure
\* dropped
bridge_mint_swallow(S, auth, record) ==
    IF S.tokenContractId = NoAddress
    THEN Result("Ok", S, "none", NoAddress, NoRecord)
    ELSE LET amount == as_i128(record.co2e_tons)
             r == invoke_token_mint(S, auth, record.farmer_address, amount)
         IN IF r.res = "Ok"
            THEN Result("Ok", r.st, "Ok", NoAddress, NoRecord)
            ELSE Result("Ok", S, r.res, NoAddress, NoRecord)

\* the cross-contract block of mint_certificate.  env.invoke_contract (as
\* opposed to try_invoke_contract) traps the caller when the callee fails,
\* so binding its value to `_` discards only a successful return
bridge_mint(S, auth, record) ==
    IF S.tokenContractId = NoAddress
    THEN Result("Ok", S, "none", NoAddress, NoRecord)
    ELSE LET amount == as_i128(record.co2e_tons)
             r == invoke_token_mint(S, auth, record.farmer_address, amount)
         IN IF r.res = "Ok"
            THEN Result("Ok", r.st, "Ok", NoAddress, NoRecord)
            ELSE Result("BridgeTrap", S, r.res, NoAddress, NoRecord)

\* mint_certificate without the co2e_tons == 0 validation
mint_certificate_accepts_zero_tons(S, auth, certificate_id, record) ==
    IF record.verifier_address \notin auth THEN Fail("AuthTrap", S)
    ELSE IF record.hectares_not_burned = 0 THEN Fail("InvalidInput", S)
    ELSE IF Has(S.certificates, certificate_id) THEN Fail("AlreadyExists", S)
    ELSE LET s1 == [S EXCEPT !.certificates = Put(@, certificate_id, record)]
             s2 == increment_certificate_count(s1)
         IN IF ~FitsU128(s2.totalCO2e + record.co2e_tons)
            THEN Fail("OverflowTrap", s2)
            ELSE LET s3 == add_co2e_to_total(s2, record.co2e_tons)
                     s4 == add_to_index(s3, record.farmer_address,
                                        certificate_id, TRUE)
                     s5 == add_to_index(s4, record.verifier_address,
                                        certificate_id, FALSE)
                     s6 == [s5 EXCEPT !.certificateOwner =
                                Put(@, certificate_id, record.farmer_address)]
                     b == bridge_mint(s6, auth, record)
                 IN Result(b.res, b.st, b.bridge,
                           record.verifier_address, record)

\* mint_certificate without the duplicate check
mint_certificate_overwrites(S, auth, certificate_id, record) ==
    IF record.verifier_address \notin auth THEN Fail("AuthTrap", S)
    ELSE IF record.hectares_not_burned = 0 THEN Fail("InvalidInput", S)
    ELSE IF record.co2e_tons = 0 THEN Fail("InvalidInput", S)
    ELSE LET s1 == [S EXCEPT !.certificates = Put(@, certificate_id, record)]
             s2 == increment_certificate_count(s1)
         IN IF ~FitsU128(s2.totalCO2e + record.co2e_tons)
            THEN Fail("OverflowTrap", s2)
            ELSE LET s3 == add_co2e_to_total(s2, record.co2e_tons)
                     s4 == add_to_index(s3, record.farmer_address,
                                        certificate_id, TRUE)
                     s5 == add_to_index(s4, record.verifier_address,
                                        certificate_id, FALSE)
                     s6 == [s5 EXCEPT !.certificateOwner =
                                Put(@, certificate_id, record.farmer_address)]
                     b == bridge_mint(s6, auth, record)
                 IN Result(b.res, b.st, b.bridge,
                           record.verifier_address, record)

\* mint_certificate that stores no owner
mint_certificate_without_owner(S, auth, certificate_id, record) ==
    IF record.verifier_address \notin auth THEN Fail("AuthTrap", S)
    ELSE IF record.hectares_not_burned = 0 THEN Fail("InvalidInput", S)
    ELSE IF record.co2e_tons = 0 THEN Fail("InvalidInput", S)
    ELSE IF Has(S.certificates, certificate_id) THEN Fail("AlreadyExists", S)
    ELSE LET s1 == [S EXCEPT !.certificates = Put(@, certificate_id, record)]
             s2 == increment_certificate_count(s1)
         IN IF ~FitsU128(s2.totalCO2e + record.co2e_tons)
            THEN Fail("OverflowTrap", s2)
            ELSE LET s3 == add_co2e_to_total(s2, record.co2e_tons)
                     s4 == add_to_index(s3, record.farmer_address,
                                        certificate_id, TRUE)
                     s5 == add_to_index(s4, record.verifier_address,
                                        certificate_id, FALSE)
                     b == bridge_mint(s5, auth, record)
                 IN Result(b.res, b.st, b.bridge,
                           record.verifier_address, record)

\* CarbonCertifier::mint_certificate
mint_certificate(S, auth, certificate_id, record) ==
    IF record.verifier_address \notin auth THEN Fail("AuthTrap", S)
    ELSE IF record.hectares_not_burned = 0 THEN Fail("InvalidInput", S)
    ELSE IF record.co2e_tons = 0 THEN Fail("InvalidInput", S)
    ELSE IF Has(S.certificates, certificate_id) THEN Fail("AlreadyExists", S)
    ELSE LET s1 == [S EXCEPT !.certificates = Put(@, certificate_id, record)]
             s2 == increment_certificate_count(s1)
         IN IF ~FitsU128(s2.totalCO2e + record.co2e_tons)
            THEN Fail("OverflowTrap", s2)
            ELSE LET s3 == add_co2e_to_total(s2, record.co2e_tons)
                     s4 == add_to_index(s3, record.farmer_address,
                                        certificate_id, TRUE)
                     s5 == add_to_index(s4, record.verifier_address,
                                        certificate_id, FALSE)
                     s6 == [s5 EXCEPT !.certificateOwner =
                                Put(@, certificate_id, record.farmer_address)]
                     b == bridge_mint(s6, auth, record)
                 IN Result(b.res, b.st, b.bridge,
                           record.verifier_address, record)

\* transfer_certificate without the ownership check
transfer_certificate_any_holder(S, auth, certificate_id, from, to) ==
    IF from \notin auth THEN Fail("AuthTrap", S)
    ELSE IF ~Has(S.certificates, certificate_id) THEN Fail("NotFound", S)
    ELSE IF ~Has(S.certificateOwner, certificate_id) THEN Fail("NotFound", S)
    ELSE Ok([S EXCEPT !.certificateOwner = Put(@, certificate_id, to)],
            from, S.certificates[certificate_id])

\* transfer_certificate that moves the id from the farmer's index list to a
\* list of the new owner
transfer_certificate_reindexes(S, auth, certificate_id, from, to) ==
    IF from \notin auth THEN Fail("AuthTrap", S)
    ELSE IF ~Has(S.certificates, certificate_id) THEN Fail("NotFound", S)
    ELSE IF ~Has(S.certificateOwner, certificate_id) THEN Fail("NotFound", S)
    ELSE IF S.certificateOwner[certificate_id] # from THEN Fail("NotOwner", S)
    ELSE LET record == S.certificates[certificate_id]
             s1 == [S EXCEPT !.certificateOwner = Put(@, certificate_id, to)]
             s2 == remove_from_index(s1, record.farmer_address,
                                     certificate_id, TRUE)
             s3 == add_to_index(s2, to, certificate_id, TRUE)
         IN Ok(s3, from, record)

\* CarbonCertifier::transfer_certificate
transfer_certificate(S, auth, certificate_id, from, to) ==
    IF from \notin auth THEN Fail("AuthTrap", S)
    ELSE IF ~Has(S.certificates, certificate_id) THEN Fail("NotFound", S)
    ELSE IF ~Has(S.certificateOwner, certificate_id) THEN Fail("NotFound", S)
    ELSE IF S.certificateOwner[certificate_id] # from THEN Fail("NotOwner", S)
    ELSE Ok([S EXCEPT !.certificateOwner = Put(@, certificate_id, to)],
            from, S.certificates[certificate_id])

\* burn_certificate that leaves the owner entry behind
burn_certificate_keeps_owner(S, auth, certificate_id) ==
    IF ~Has(S.certificates, certificate_id) THEN Fail("NotFound", S)
    ELSE IF ~Has(S.certificateOwner, certificate_id) THEN Fail("NotFound", S)
    ELSE LET record == S.certificates[certificate_id]
             owner == S.certificateOwner[certificate_id]
         IN IF owner \notin auth THEN Fail("AuthTrap", S)
            ELSE LET co2e_tons == record.co2e_tons
                     s2 == [S EXCEPT !.certificates =
                                Remove(@, certificate_id)]
                     s3 == remove_from_index(s2, record.farmer_address,
                                             certificate_id, TRUE)
                     s4 == remove_from_index(s3, record.verifier_address,
                                             certificate_id, FALSE)
                     s5 == decrement_certificate_count(s4)
                     s6 == subtract_co2e_from_total(s5, co2e_tons)
                 IN Ok(s6, owner, record)

\* burn_certificate that asks the record's farmer, not the current owner
burn_certificate_farmer_auth(S, auth, certificate_id) ==
    IF ~Has(S.certificates, certificate_id) THEN Fail("NotFound", S)
    ELSE IF ~Has(S.certificateOwner, certificate_id) THEN Fail("NotFound", S)
    ELSE LET record == S.certificates[certificate_id]
             owner == S.certificateOwner[certificate_id]
         IN IF record.farmer_address \notin auth THEN Fail("AuthTrap", S)
            ELSE LET co2e_tons == record.co2e_tons
                     s1 == [S EXCEPT !.certificateOwner =
                                Remove(@, certificate_id)]
                     s2 == [s1 EXCEPT !.certificates =
                                Remove(@, certificate_id)]
                     s3 == remove_from_index(s2, record.farmer_address,
                                             certificate_id, TRUE)
                     s4 == remove_from_index(s3, record.verifier_address,
                                             certificate_id, FALSE)
                     s5 == decrement_certificate_count(s4)
                     s6 == subtract_co2e_from_total(s5, co2e_tons)
                 IN Ok(s6, owner, record)

\* burn_certificate that answers NotOwner where the owner has not signed
burn_certificate_not_owner_error(S, auth, certificate_id) ==
    IF ~Has(S.certificates, certificate_id) THEN Fail("NotFound", S)
    ELSE IF ~Has(S.certificateOwner, certificate_id) THEN Fail("NotFound", S)
    ELSE LET record == S.certificates[certificate_id]
             owner == S.certificateOwner[certificate_id]
         IN IF owner \notin auth THEN Fail("NotOwner", S)
            ELSE LET co2e_tons == record.co2e_tons
                     s1 == [S EXCEPT !.certificateOwner =
                                Remove(@, certificate_id)]
                     s2 == [s1 EXCEPT !.certificates =
                                Remove(@, certificate_id)]
                     s3 == remove_from_index(s2, record.farmer_address,
                                             certificate_id, TRUE)
                     s4 == remove_from_index(s3, record.verifier_address,
                                             certificate_id, FALSE)
                     s5 == decrement_certificate_count(s4)
                     s6 == subtract_co2e_from_total(s5, co2e_tons)
                 IN Ok(s6, owner, record)

\* burn_certificate that, for an id without a record, lowers the count and
\* reports success
burn_certificate_absent_ok(S, auth, certificate_id) ==
    IF ~Has(S.certificates, certificate_id)
    THEN Ok(decrement_certificate_count(S), NoAddress, NoRecord)
    ELSE IF ~Has(S.certificateOwner, certificate_id) THEN Fail("NotFound", S)
    ELSE LET record == S.certificates[certificate_id]
             owner == S.certificateOwner[certificate_id]
         IN IF owner \notin auth THEN Fail("AuthTrap", S)
            ELSE LET co2e_tons == record.co2e_tons
                     s1 == [S EXCEPT !.certificateOwner =
                                Remove(@, certificate_id)]
                     s2 == [s1 EXCEPT !.certificates =
                                Remove(@, certificate_id)]
                     s3 == remove_from_index(s2, record.farmer_address,
                                             certificate_id, TRUE)
                     s4 == remove_from_index(s3, record.verifier_address,
                                             certificate_id, FALSE)
                     s5 == decrement_certificate_count(s4)
                     s6 == subtract_co2e_from_total(s5, co2e_tons)
                 IN Ok(s6, owner, record)

\* CarbonCertifier::burn_certificate
burn_certificate(S, auth, certificate_id) ==
    IF ~Has(S.certificates, certificate_id) THEN Fail("NotFound", S)
    ELSE IF ~Has(S.certificateOwner, certificate_id) THEN Fail("NotFound", S)
    ELSE LET record == S.certificates[certificate_id]
             owner == S.certificateOwner[certificate_id]
         IN IF owner \notin auth THEN Fail("AuthTrap", S)
            ELSE LET co2e_tons == record.co2e_tons
                     s1 == [S EXCEPT !.certificateOwner =
                                Remove(@, certificate_id)]
                     s2 == [s1 EXCEPT !.certificates =
                                Remove(@, certificate_id)]
                     s3 == remove_from_index(s2, record.farmer_address,
                                             certificate_id, TRUE)
                     s4 == remove_from_index(s3, record.verifier_address,
                                             certificate_id, FALSE)
                     s5 == decrement_certificate_count(s4)
                     s6 == subtract_co2e_from_total(s5, co2e_tons)
                 IN Ok(s6, owner, record)

\* ------------------------------------------------------------ transitions
Init ==
    /\ certificates = EmptyMap
    /\ certificateOwner = EmptyMap
    /\ farmerCertList = EmptyMap
    /\ verifierCertList = EmptyMap
    /\ totalCertificates = 0
    /\ totalCO2e = 0
    /\ admin = NoAddress
    /\ tokenContractId = NoAddress
    /\ tokenAdmin = NoAddress
    /\ balances = [a \in Users |-> 0]
    /\ allowances = [p \in Users \X Users |-> 0]
    /\ last = [op |-> "none", id |-> 0, res |-> "Ok", wrote |-> FALSE,
               bridge |-> "none", by |-> NoAddress, rec |-> NoRecord]
    /\ spending = [p \in Users \X Users |-> [granted |-> 0, spent |-> 0]]

\* the host's transaction boundary: the storage a call leaves behind is
\* kept when the call returns Ok and discarded when it fails or traps
Committed(r) == IF r.res = "Ok" THEN r.st ELSE Store

Apply(op, id, r) ==
    /\ certificates' = Committed(r).certificates
    /\ certificateOwner' = Committed(r).certificateOwner
    /\ farmerCertList' = Committed(r).farmerCertList
    /\ verifierCertList' = Committed(r).verifierCertList
    /\ totalCertificates' = Committed(r).totalCertificates
    /\ totalCO2e' = Committed(r).totalCO2e
    /\ admin' = Committed(r).admin
    /\ tokenContractId' = Committed(r).tokenContractId
    /\ tokenAdmin' = Committed(r).tokenAdmin
    /\ balances' = Committed(r).balances
    /\ allowances' = Committed(r).allowances
    /\ last' = [op |-> op, id |-> id, res |-> r.res, wrote |-> r.st # Store,
                bridge |-> r.bridge,
                by |-> IF r.res = "Ok" THEN r.by ELSE NoAddress,
                rec |-> IF r.res = "Ok" THEN r.rec ELSE NoRecord]

\* a call that is neither an approve nor a transfer_from
Commit(op, id, r) == Apply(op, id, r) /\ UNCHANGED spending

\* addresses a token ledger may be initialized with: the registry (the
\* deployment the bridge needs) or a user
TokenAdmins == {Registry, "u1"}

Initialize(new_admin) ==
    Commit("initialize", 0, initialize(Store, new_admin))

SetTokenContractId(auth, caller_admin, token_id) ==
    Commit("set_token_contract_id", 0,
           set_token_contract_id(Store, auth, caller_admin, token_id))

MintCertificate(auth, id, record) ==
    Commit("mint_certificate", id, mint_certificate(Store, auth, id, record))

TransferCertificate(auth, id, from, to) ==
    Commit("transfer_certificate", id,
           transfer_certificate(Store, auth, id, from, to))

BurnCertificate(auth, id) ==
    Commit("burn_certificate", id, burn_certificate(Store, auth, id))

TokenInitialize(new_admin) ==
    Commit("token_initialize", 0, token_initialize(Store, new_admin))

TokenMint(auth, to, amount) ==
    Commit("mint", 0, mint(Store, auth, to, amount))

TokenTransfer(auth, from, to, amount) ==
    Commit("transfer", 0, transfer(Store, auth, from, to, amount))

TokenApprove(auth, from, spender, amount) ==
    LET r == approve(Store, auth, from, spender, amount)
    IN /\ Apply("approve", 0, r)
       /\ spending' =
             IF r.res = "Ok"
             THEN [spending EXCEPT ![<<from, spender>>] =
                                       [granted |-> amount, spent |-> 0]]
             ELSE spending

TokenTransferFrom(auth, spender, from, to, amount) ==
    LET r == transfer_from(Store, auth, spender, from, to, amount)
    IN /\ Apply("transfer_from", 0, r)
       /\ spending' =
             IF r.res = "Ok"
             THEN [spending EXCEPT ![<<from, spender>>].spent = @ + amount]
             ELSE spending

\* the registry alone: the bridge stays unconfigured
RegistryRecords == {r \in VerificationRecord : r.co2e_tons # I128Max}

Next ==
    \/ \E a \in Users : Initialize(a)
    \/ \E auth \in Signers, id \in Ids, record \in RegistryRecords :
          MintCertificate(auth, id, record)
    \/ \E auth \in Signers, id \in Ids, from \in Users, to \in Users :
          TransferCertificate(auth, id, from, to)
    \/ \E auth \in Signers, id \in Ids : BurnCertificate(auth, id)

Spec == Init /\ [][Next]_vars

\* the registry with its bridge into the token ledger, on one certificate id
BridgeIds == {1}
RegistryAdmins == {"u1"}

BridgeNext ==
    \/ \E a \in RegistryAdmins : Initialize(a)
    \/ \E auth \in Signers, a \in Users, t \in TokenRefs :
          SetTokenContractId(auth, a, t)
    \/ \E a \in TokenAdmins : TokenInitialize(a)
    \/ \E auth \in Signers, id \in BridgeIds, record \in VerificationRecord :
          MintCertificate(auth, id, record)
    \/ \E auth \in Signers, id \in BridgeIds, from \in Users, to \in Users :
          TransferCertificate(auth, id, from, to)
    \/ \E auth \in Signers, id \in BridgeIds : BurnCertificate(auth, id)

BridgeSpec == Init /\ [][BridgeNext]_vars

\* the token ledger called directly
\* (owner, spender) pairs that approve is called with
Delegations == {<<"u1", "u2">>}

LedgerNext ==
    \/ \E a \in TokenAdmins : TokenInitialize(a)
    \/ \E auth \in Signers, to \in Users, amount \in Amounts :
          TokenMint(auth, to, amount)
    \/ \E auth \in Signers, from \in Users, to \in Users, amount \in Amounts :
          TokenTransfer(auth, from, to, amount)
    \/ \E auth \in Signers, d \in Delegations, amount \in Amounts :
          TokenApprove(auth, d[1], d[2], amount)
    \/ \E auth \in Signers, spender \in Users, from \in Users, to \in Users,
          amount \in Amounts :
          TokenTransferFrom(auth, spender, from, to, amount)

LedgerSpec == Init /\ [][LedgerNext]_vars

\* both contracts, every entry point; the registry is driven with the
\* records of one farmer and one verifier, the ledger with one delegation
SystemRecords ==
    {r \in VerificationRecord : r.farmer_address = "u1" /\ r.co2e_tons # 1}
SystemAmounts == {-1, 0, I128Max}

SystemNext ==
    \/ \E a \in RegistryAdmins : Initialize(a)
    \/ \E auth \in Signers, a \in Users, t \in TokenRefs :
          SetTokenContractId(auth, a, t)
    \/ \E a \in TokenAdmins : TokenInitialize(a)
    \/ \E auth \in Signers, id \in BridgeIds, record \in SystemRecords :
          MintCertificate(auth, id, record)
    \/ \E auth \in Signers, id \in BridgeIds, from \in Users, to \in Users :
          TransferCertificate(auth, id, from, to)
    \/ \E auth \in Signers, id \in BridgeIds : BurnCertificate(auth, id)
    \/ \E auth \in Signers, to \in Users, amount \in SystemAmounts :
          TokenMint(auth, to, amount)
    \/ \E auth \in Signers, from \in Users, to \in Users, amount \in SystemAmounts :
          TokenTransfer(auth, from, to, amount)
    \/ \E auth \in Signers, d \in Delegations, amount \in SystemAmounts :
          TokenApprove(auth, d[1], d[2], amount)
    \/ \E auth \in Signers, d \in Delegations, to \in Users, amount \in SystemAmounts :
          TokenTransferFrom(auth, d[2], d[1], to, amount)

SystemSpec == Init /\ [][SystemNext]_vars

\* ------------------------------------------------------------- properties
\* the ids with a live record
LiveIds == DOMAIN certificates

\* how many times certificate_id occurs in an index list
Occurrences(cert_list, certificate_id) ==
    Cardinality({i \in 1..Len(cert_list) : cert_list[i] = certificate_id})

\* the sum of co2e_tons over the records of a set of ids
RECURSIVE SumCo2e(_)
SumCo2e(ids) ==
    IF ids = {} THEN 0
    ELSE LET id == CHOOSE x \in ids : TRUE
         IN certificates[id].co2e_tons + SumCo2e(ids \ {id})

\* the call that produced the current state
Burned == last.op = "burn_certificate" /\ last.res = "Ok"
Minted == last.op = "mint_certificate" /\ last.res = "Ok"

\* C1: whatever initialize, mint_certificate, transfer_certificate and
\* burn_certificate calls were made, failing or not, an id has an entry in
\* CertificateOwner if and only if it has one in the record store.
C1_OwnerIffRecord ==
    \A id \in Ids : Has(certificateOwner, id) <=> Has(certificates, id)

\* a burn went through while another certificate, transferred away from its
\* farmer, is still live
C1_Witness ==
    /\ Burned
    /\ \E id \in LiveIds :
          certificateOwner[id] # certificates[id].farmer_address

\* C2: get_total_certificates returns the number of live records after any
\* mints and burns, and is never below zero.
C2_CountIsLiveRecords ==
    /\ get_total_certificates(Store) = Cardinality(LiveIds)
    /\ get_total_certificates(Store) >= 0

\* the last live certificate was burned and the counter is back at zero
C2_Witness == Burned /\ LiveIds = {} /\ get_total_certificates(Store) = 0

\* C3: get_total_co2e returns the sum of co2e_tons over the live records
\* after any mints and burns, and a successful burn lowers it by the burned
\* record's co2e_tons without taking it below zero.
C3_TotalIsLiveSum ==
    /\ [](get_total_co2e(Store) = SumCo2e(LiveIds))
    /\ [][(last'.op = "burn_certificate" /\ last'.res = "Ok")
          => /\ totalCO2e' = totalCO2e - last'.rec.co2e_tons
             /\ totalCO2e' >= 0]_vars

\* a burn of a certificate with tons took the whole remaining total away
C3_Witness ==
    /\ Burned
    /\ last.rec.co2e_tons > 0
    /\ get_total_co2e(Store) = 0

\* C4: a live id occurs exactly once in the farmer list of its record's
\* farmer and in no other farmer list, exactly once in the verifier list of
\* its record's verifier and in no other verifier list; an id without a
\* live record occurs in no list.
C4_IndexesMatchRecords ==
    \A id \in Ids, a \in Users :
        /\ Occurrences(GetList(Store, TRUE, a), id) =
               IF Has(certificates, id) /\ certificates[id].farmer_address = a
               THEN 1 ELSE 0
        /\ Occurrences(GetList(Store, FALSE, a), id) =
               IF Has(certificates, id)
                  /\ certificates[id].verifier_address = a
               THEN 1 ELSE 0

\* the first of a farmer's two certificates was burned: the second moved
\* into its place
C4_Witness ==
    /\ Burned
    /\ last.id = 1
    /\ GetList(Store, TRUE, last.rec.farmer_address) = <<2>>

\* what a refused call looks like: it fails having written nothing, and the
\* storage after it is the storage before it
Refused == last'.res # "Ok" /\ ~last'.wrote /\ UNCHANGED storeVars

\* C5: mint_certificate, transfer_certificate, burn_certificate,
\* set_token_contract_id and the ledger's mint, transfer, approve and
\* transfer_from each fail without having written or changed any storage
\* when the address they require has not authorized the call: a step is
\* refused, or it is no such call made without the required authorization.
C5_AuthBeforeWrites ==
    [][Refused \/
       /\ \A auth \in Signers, id \in BridgeIds, record \in SystemRecords :
            ~(record.verifier_address \notin auth
                /\ MintCertificate(auth, id, record))
       /\ \A auth \in Signers, id \in BridgeIds, from \in Users, to \in Users :
            ~(from \notin auth /\ TransferCertificate(auth, id, from, to))
       /\ \A auth \in Signers, id \in BridgeIds :
            ~(Has(certificateOwner, id) /\ certificateOwner[id] \notin auth
                /\ BurnCertificate(auth, id))
       /\ \A auth \in Signers, a \in Users, t \in TokenRefs :
            ~(a \notin auth /\ SetTokenContractId(auth, a, t))
       /\ \A auth \in Signers, to \in Users, amount \in SystemAmounts :
            ~(tokenAdmin \notin auth /\ TokenMint(auth, to, amount))
       /\ \A auth \in Signers, from \in Users, to \in Users,
             amount \in SystemAmounts :
            ~(from \notin auth /\ TokenTransfer(auth, from, to, amount))
       /\ \A auth \in Signers, d \in Delegations, amount \in SystemAmounts :
            ~(d[1] \notin auth /\ TokenApprove(auth, d[1], d[2], amount))
       /\ \A auth \in Signers, d \in Delegations, to \in Users,
             amount \in SystemAmounts :
            ~(d[2] \notin auth
                /\ TokenTransferFrom(auth, d[2], d[1], to, amount))
      ]_vars

\* an approval was refused for want of the owner's authorization while the
\* ledger held balances and the registry a live certificate
C5_Witness ==
    /\ last.op = "approve"
    /\ last.res = "AuthTrap"
    /\ balances["u1"] > 0
    /\ LiveIds # {}

C7_OnlyCurrentOwnerBurns ==
    [][(last'.op = "burn_certificate" /\ last'.res = "Ok")
          => \A auth \in Signers, id \in Ids :
                BurnCertificate(auth, id)
                    => /\ Has(certificateOwner, id)
                       /\ certificateOwner[id] \in auth
                       /\ last'.by = certificateOwner[id]
      ]_vars

\* a certificate was burned by an owner who is not its farmer
C7_Witness == Burned /\ last.by # last.rec.farmer_address

\* C8: in the state a successful burn_certificate(id) leaves,
\* get_certificate_data(id) and get_certificate_owner(id) fail NotFound and
\* id is in neither the farmer list nor the verifier list of the burned
\* record.
C8_BurnedIsGone ==
    Burned =>
        /\ get_certificate_data(Store, last.id)[1] = "NotFound"
        /\ get_certificate_owner(Store, last.id)[1] = "NotFound"
        /\ Occurrences(GetList(Store, TRUE, last.rec.farmer_address),
                       last.id) = 0
        /\ Occurrences(GetList(Store, FALSE, last.rec.verifier_address),
                       last.id) = 0

\* a certificate was burned whose farmer and verifier keep another one
C8_Witness ==
    /\ Burned
    /\ Len(GetList(Store, TRUE, last.rec.farmer_address)) = 1
    /\ Len(GetList(Store, FALSE, last.rec.verifier_address)) = 1

\* C9: with a token contract configured, a successful mint_certificate has
\* made the bridged mint, which raised the balance of the record's farmer
\* by the record's co2e_tons and left every other balance alone.
C9_BridgeCreditsFarmer ==
    [][(last'.op = "mint_certificate" /\ last'.res = "Ok"
           /\ tokenContractId # NoAddress)
          => /\ last'.bridge = "Ok"
             /\ balances' =
                   [balances EXCEPT ![last'.rec.farmer_address] =
                                        @ + last'.rec.co2e_tons]
      ]_vars

\* a bridged mint credited a certificate of more than one ton to a farmer,
\* next to a balance the other user already held
C9_Witness ==
    /\ Minted
    /\ last.bridge = "Ok"
    /\ last.rec.co2e_tons > 1
    /\ balances[last.rec.farmer_address] >= last.rec.co2e_tons
    /\ balances[last.rec.verifier_address] > 0

C12_AllowanceSpentExactly ==
    /\ [](\A p \in Users \X Users : allowance(Store, p[1], p[2]) >= 0)
    /\ [][(last'.op = "transfer_from" /\ last'.res = "Ok")
          => \A auth \in Signers, spender \in Users, from \in Users,
                to \in Users, amount \in Amounts :
                TokenTransferFrom(auth, spender, from, to, amount)
                    => allowances' =
                           [allowances EXCEPT ![<<from, spender>>] =
                                                  @ - amount]
         ]_vars

\* a delegate spent part of an allowance and a rest is left
C12_Witness ==
    /\ last.op = "transfer_from"
    /\ last.res = "Ok"
    /\ \E p \in Users \X Users :
          allowance(Store, p[1], p[2]) > 0 /\ balances[p[1]] > 0

\* C13 as stated: a transfer_from the spender has authorized, for more than
\* allowance(from, spender), fails with InsufficientAllowance and changes no
\* balance.
C13_FailsInsufficientAllowance ==
    [][last'.op = "transfer_from"
          => \A auth \in Signers, spender \in Users, from \in Users,
                to \in Users, amount \in Amounts :
                (spender \in auth /\ allowance(Store, from, spender) < amount
                     /\ TokenTransferFrom(auth, spender, from, to, amount))
                    => /\ last'.res = "InsufficientAllowance"
                       /\ UNCHANGED balances
      ]_vars

\* C13 amended: a transfer_from the spender has authorized, for more than
\* allowance(from, spender), fails before any write and changes no balance;
\* it fails with InsufficientBalance when from's balance is below the amount
\* too, and with InsufficientAllowance otherwise.
C13_FailsBalanceThenAllowance ==
    [][last'.op = "transfer_from"
          => \A auth \in Signers, spender \in Users, from \in Users,
                to \in Users, amount \in Amounts :
                (spender \in auth /\ allowance(Store, from, spender) < amount
                     /\ TokenTransferFrom(auth, spender, from, to, amount))
                    => /\ last'.res = IF balance(Store, from) < amount
                                      THEN "InsufficientBalance"
                                      ELSE "InsufficientAllowance"
                       /\ ~last'.wrote
                       /\ UNCHANGED storeVars
      ]_vars

\* a delegate with an allowance of one asked for more from an owner who
\* holds it
C13_Witness ==
    /\ last.op = "transfer_from"
    /\ last.res = "InsufficientAllowance"
    /\ allowance(Store, "u1", "u2") = 1
    /\ balance(Store, "u1") = I128Max

\* the sum of a balance map over a set of addresses
RECURSIVE SumBalances(_, _)
SumBalances(b, addresses) ==
    IF addresses = {} THEN 0
    ELSE LET a == CHOOSE x \in addresses : TRUE
         IN b[a] + SumBalances(b, addresses \ {a})

\* C14: a successful transfer(from, to, amount) takes amount from from's
\* balance and adds it to to's in the same step, which leaves the balances
\* as they were when from = to, and the sum of all balances is unchanged.
C14_TransferMovesAmount ==
    [][(last'.op = "transfer" /\ last'.res = "Ok")
          => \A auth \in Signers, from \in Users, to \in Users,
                amount \in Amounts :
                TokenTransfer(auth, from, to, amount)
                    => /\ balances' =
                             IF from = to THEN balances
                             ELSE [balances EXCEPT ![from] = @ - amount,
                                                   ![to] = @ + amount]
                       /\ SumBalances(balances', Users) =
                              SumBalances(balances, Users)
      ]_vars

\* a transfer went through and both users hold tokens
C14_Witness ==
    /\ last.op = "transfer"
    /\ last.res = "Ok"
    /\ \A a \in Users : balance(Store, a) > 0

\* C15: whatever mint, transfer, approve and transfer_from calls and bridged
\* mints were made, no balance is below zero.
C15_BalancesNonNegative == \A a \in Users : balance(Store, a) >= 0

\* a holder of bridged tokens gave all of them away
C15_Witness ==
    /\ last.op \in {"transfer", "transfer_from"}
    /\ last.res = "Ok"
    /\ tokenAdmin = Registry
    /\ tokenContractId = Token
    /\ balance(Store, "u1") = 0
    /\ balance(Store, "u2") > 0

\* C16: a successful approve(owner, spender, amount) makes
\* allowance(owner, spender) equal to amount whatever it was before, and
\* changes no other allowance and no balance.
C16_ApproveOverwrites ==
    [][(last'.op = "approve" /\ last'.res = "Ok")
          => \A auth \in Signers, from \in Users, spender \in Users,
                amount \in Amounts :
                TokenApprove(auth, from, spender, amount)
                    => /\ allowances' =
                             [allowances EXCEPT ![<<from, spender>>] = amount]
                       /\ allowance([Store EXCEPT !.allowances = allowances'],
                                    from, spender) = amount
                       /\ UNCHANGED balances
      ]_vars

\* an approval stands at one while the delegate already received tokens
C16_Witness ==
    /\ last.op = "approve"
    /\ last.res = "Ok"
    /\ allowance(Store, "u1", "u2") = 1
    /\ balance(Store, "u2") > 0

\* ------------------------------------------------------ the index helpers
\* add_to_index and remove_from_index applied to the lists of one actor.
\* mint_certificate refuses an id that has a record, so add_to_index is only
\* ever called with an id its list does not hold.
MaxListId == 3
ListIds == 1..MaxListId
IndexActors == {"u1"}

AddToIndex(actor_address, certificate_id, is_farmer) ==
    /\ Occurrences(GetList(Store, is_farmer, actor_address), certificate_id) = 0
    /\ Commit("add_to_index", certificate_id,
              Ok(add_to_index(Store, actor_address, certificate_id, is_farmer),
                 actor_address, NoRecord))

RemoveFromIndex(actor_address, certificate_id, is_farmer) ==
    Commit("remove_from_index", certificate_id,
           Ok(remove_from_index(Store, actor_address, certificate_id,
                                is_farmer),
              actor_address, NoRecord))

IndexNext ==
    \/ \E a \in IndexActors, id \in ListIds, is_farmer \in BOOLEAN :
          AddToIndex(a, id, is_farmer)
    \/ \E a \in IndexActors, id \in ListIds, is_farmer \in BOOLEAN :
          RemoveFromIndex(a, id, is_farmer)

IndexSpec == Init /\ [][IndexNext]_vars

\* C17: remove_from_index of an id that is once in the list leaves a list
\* one shorter in which the id is gone and every other id occurs as often
\* as before; of an id that is not in the list, or of any id when there is
\* no list, it changes nothing.
C17_SwapAndPopKeepsOthers ==
    [][last'.op = "remove_from_index"
          => \A a \in IndexActors, id \in ListIds, is_farmer \in BOOLEAN :
                RemoveFromIndex(a, id, is_farmer)
                    => LET before == GetList(Store, is_farmer, a)
                           after == GetList(Store', is_farmer, a)
                       IN IF Occurrences(before, id) = 1
                          THEN /\ Len(after) = Len(before) - 1
                               /\ Occurrences(after, id) = 0
                               /\ \A x \in ListIds \ {id} :
                                     Occurrences(after, x) =
                                         Occurrences(before, x)
                          ELSE UNCHANGED storeVars
      ]_vars

\* an id was removed from the front of a list of three or more: the last id
\* stands in its place, before the ids that were in the middle
C17_Witness ==
    /\ last.op = "remove_from_index"
    /\ last.wrote
    /\ LET cert_list == GetList(Store, TRUE, "u1")
       IN /\ Len(cert_list) >= 2
          /\ cert_list[1] > cert_list[2]
          /\ cert_list[1] > last.id
          /\ GetList(Store, FALSE, "u1") = <<>>

\* ------------------------------------------------------------ the queries
\* offset, limit and Vec::len are u32
U32Max == 2^Bits - 1
SortBy == {"Co2eTons", "Hectares", "CertificateId"}

\* what a query returns: a page and a total, or a trap
Page(page, total) == [res |-> "Ok", page |-> page, total |-> total]
QueryTrap(res) == [res |-> res, page |-> <<>>, total |-> 0]

\* paginate_cert_list that reports the length of the page as the total
paginate_cert_list_page_total(all_certs, offset, limit) ==
    LET total == Len(all_certs)
    IN IF offset >= total THEN Page(<<>>, 0)
       ELSE IF offset + limit > U32Max THEN QueryTrap("OverflowTrap")
       ELSE LET sum == offset + limit
                end == IF sum < total THEN sum ELSE total
            IN Page(SubSeq(all_certs, offset + 1, end), end - offset)

\* CarbonCertifier::paginate_cert_list; offset + limit is a checked u32
\* addition, made before the .min(total)
paginate_cert_list(all_certs, offset, limit) ==
    LET total == Len(all_certs)
    IN IF offset >= total THEN Page(<<>>, total)
       ELSE IF offset + limit > U32Max THEN QueryTrap("OverflowTrap")
       ELSE LET sum == offset + limit
                end == IF sum < total THEN sum ELSE total
            IN Page(SubSeq(all_certs, offset + 1, end), total)

\* the pairs (id, sort value) sort_certificates builds, one for each id that
\* has a record
RECURSIVE sort_pairs(_, _, _)
sort_pairs(S, cert_ids, sort_by) ==
    IF cert_ids = <<>> THEN <<>>
    ELSE LET id == Head(cert_ids)
             rest == sort_pairs(S, Tail(cert_ids), sort_by)
         IN IF ~Has(S.certificates, id) THEN rest
            ELSE LET record == S.certificates[id]
                     sort_value ==
                         CASE sort_by = "Co2eTons" -> record.co2e_tons
                           [] sort_by = "Hectares" ->
                                  record.hectares_not_burned
                           [] OTHER -> id
                 IN <<<<id, sort_value>>>> \o rest

\* the comparison of the bubble sort
should_swap(a, b, is_descending) ==
    IF is_descending THEN a[2] < b[2] ELSE a[2] > b[2]

\* the inner loop of the bubble sort: positions j .. stop (1-based)
RECURSIVE bubble_inner(_, _, _, _)
bubble_inner(pairs, j, stop, is_descending) ==
    IF j > stop THEN pairs
    ELSE IF should_swap(pairs[j], pairs[j + 1], is_descending)
    THEN bubble_inner([pairs EXCEPT ![j] = pairs[j + 1],
                                    ![j + 1] = pairs[j]],
                      j + 1, stop, is_descending)
    ELSE bubble_inner(pairs, j + 1, stop, is_descending)

\* the outer loop: for i in 0..len
RECURSIVE bubble_outer(_, _, _)
bubble_outer(pairs, i, is_descending) ==
    IF i >= Len(pairs) THEN pairs
    ELSE bubble_outer(bubble_inner(pairs, 1, Len(pairs) - i - 1,
                                   is_descending),
                      i + 1, is_descending)

\* sort_certificates that sorts ascending whatever is_descending says
sort_certificates_ignores_direction(S, cert_ids, sort_by, is_descending) ==
    IF Len(cert_ids) <= 1 THEN cert_ids
    ELSE LET sorted == bubble_outer(sort_pairs(S, cert_ids, sort_by), 0, FALSE)
         IN [i \in 1..Len(sorted) |-> sorted[i][1]]

\* sort_certificates that makes one pass of the bubble sort
sort_certificates_single_pass(S, cert_ids, sort_by, is_descending) ==
    IF Len(cert_ids) <= 1 THEN cert_ids
    ELSE LET pairs == sort_pairs(S, cert_ids, sort_by)
             sorted == bubble_inner(pairs, 1, Len(pairs) - 1, is_descending)
         IN [i \in 1..Len(sorted) |-> sorted[i][1]]

\* CarbonCertifier::sort_certificates
sort_certificates(S, cert_ids, sort_by, is_descending) ==
    IF Len(cert_ids) <= 1 THEN cert_ids
    ELSE LET sorted == bubble_outer(sort_pairs(S, cert_ids, sort_by), 0,
                                    is_descending)
         IN [i \in 1..Len(sorted) |-> sorted[i][1]]

\* filter_by_co2e with the upper bound excluded
RECURSIVE filter_by_co2e_below_max(_, _, _, _)
filter_by_co2e_below_max(S, cert_ids, min_tons, max_tons) ==
    IF cert_ids = <<>> THEN <<>>
    ELSE LET id == Head(cert_ids)
             rest == filter_by_co2e_below_max(S, Tail(cert_ids), min_tons,
                                              max_tons)
         IN IF Has(S.certificates, id)
               /\ S.certificates[id].co2e_tons >= min_tons
               /\ S.certificates[id].co2e_tons < max_tons
            THEN <<id>> \o rest
            ELSE rest

\* CarbonCertifier::filter_by_co2e
RECURSIVE filter_by_co2e(_, _, _, _)
filter_by_co2e(S, cert_ids, min_tons, max_tons) ==
    IF cert_ids = <<>> THEN <<>>
    ELSE LET id == Head(cert_ids)
             rest == filter_by_co2e(S, Tail(cert_ids), min_tons, max_tons)
         IN IF Has(S.certificates, id)
               /\ S.certificates[id].co2e_tons >= min_tons
               /\ S.certificates[id].co2e_tons <= max_tons
            THEN <<id>> \o rest
            ELSE rest

\* CarbonCertifier::list_certificates_by_farmer
list_certificates_by_farmer(S, farmer_address, offset, limit, sort_by, is_descending) ==
    LET all_certs == GetList(S, TRUE, farmer_address)
        sorted_ids == sort_certificates(S, all_certs, sort_by, is_descending)
    IN paginate_cert_list(sorted_ids, offset, limit)

\* CarbonCertifier::list_certificates_by_verifier
list_certificates_by_verifier(S, verifier_address, offset, limit) ==
    paginate_cert_list(GetList(S, FALSE, verifier_address), offset, limit)

\* CarbonCertifier::filter_by_co2e_range
filter_by_co2e_range(S, farmer_address, min_tons, max_tons, offset, limit) ==
    LET all_certs == GetList(S, TRUE, farmer_address)
        filtered_ids == filter_by_co2e(S, all_certs, min_tons, max_tons)
    IN paginate_cert_list(filtered_ids, offset, limit)

\* a query reads the storage and leaves it alone; what it returned is kept
\* in last
Query(op, out) ==
    /\ UNCHANGED storeVars
    /\ UNCHANGED spending
    /\ last' = [op |-> op, id |-> 0, res |-> out.res, wrote |-> FALSE,
                bridge |-> "none", by |-> NoAddress, rec |-> NoRecord,
                page |-> out.page, total |-> out.total]

ListCertificatesByFarmer(farmer_address, offset, limit, sort_by, is_descending) ==
    Query("list_certificates_by_farmer",
          list_certificates_by_farmer(Store, farmer_address, offset, limit,
                                      sort_by, is_descending))

ListCertificatesByVerifier(verifier_address, offset, limit) ==
    Query("list_certificates_by_verifier",
          list_certificates_by_verifier(Store, verifier_address, offset,
                                        limit))

FilterByCo2eRange(farmer_address, min_tons, max_tons, offset, limit) ==
    Query("filter_by_co2e_range",
          filter_by_co2e_range(Store, farmer_address, min_tons, max_tons,
                               offset, limit))

\* the registry of one farmer and one verifier with its queries
QueryMeasures == {<<1, 2>>, <<2, 1>>}
QueryRecords ==
    {[co2e_tons |-> m[1], hectares_not_burned |-> m[2],
      farmer_address |-> "u1", verifier_address |-> "u2"] :
        m \in QueryMeasures}
Offsets == {0, 1, U32Max}
Limits == {0, 2, U32Max}
Ranges == {<<0, 1>>, <<1, 1>>, <<1, 2>>, <<2, 1>>, <<2, U128Max>>}
\* the (offset, limit) pairs the filter is paged with
Windows == {<<0, U32Max>>, <<1, 2>>, <<1, U32Max>>, <<U32Max, 0>>}

QueryNext ==
    \/ \E id \in ListIds, record \in QueryRecords :
          MintCertificate({record.verifier_address}, id, record)
    \/ \E auth \in Signers, id \in ListIds : BurnCertificate(auth, id)
    \/ \E offset \in Offsets, limit \in Limits, sort_by \in SortBy,
          is_descending \in BOOLEAN :
          ListCertificatesByFarmer("u1", offset, limit, sort_by,
                                   is_descending)
    \/ \E offset \in Offsets, limit \in Limits :
          ListCertificatesByVerifier("u2", offset, limit)
    \/ \E range \in Ranges, window \in Windows :
          FilterByCo2eRange("u1", range[1], range[2], window[1], window[2])

QuerySpec == Init /\ [][QueryNext]_vars

Min(a, b) == IF a < b THEN a ELSE b
Max(a, b) == IF a > b THEN a ELSE b

\* C18: for the full list of N ids and every offset and limit, the
\* pagination returns N as the total and, as the page, the ids from
\* position offset up to min(offset + limit, N) in list order: none when
\* offset >= N, max(0, min(limit, N - offset)) of them in general.
C18_PageIsSliceOfList ==
    [][last'.op = "list_certificates_by_verifier"
          => \A offset \in Offsets, limit \in Limits :
                ListCertificatesByVerifier("u2", offset, limit)
                    => LET ids == GetList(Store, FALSE, "u2")
                           N == Len(ids)
                       IN /\ last'.res = "Ok"
                          /\ last'.total = N
                          /\ last'.page =
                                 SubSeq(ids, offset + 1,
                                        Min(offset + limit, N))
                          /\ Len(last'.page) =
                                 Max(0, Min(limit, N - offset))
      ]_vars

\* a sequence back to front
Reverse(seq) == [i \in 1..Len(seq) |-> seq[Len(seq) + 1 - i]]

\* the value certificate id is sorted by
SortValue(id, sort_by) == sort_pairs(Store, <<id>>, sort_by)[1][2]

\* the first position of x in a sequence that holds it
PositionOf(seq, x) == CHOOSE i \in 1..Len(seq) : seq[i] = x

\* no two ids of the list share the sort value
DistinctSortValues(cert_ids, sort_by) ==
    \A i, j \in 1..Len(cert_ids) :
        i # j => SortValue(cert_ids[i], sort_by) # SortValue(cert_ids[j], sort_by)

\* ids of the list that share the sort value are in the page in the order
\* the list has them in
TiesInListOrder(cert_ids, page, sort_by) ==
    \A i, j \in 1..Len(cert_ids) :
        (i < j /\ SortValue(cert_ids[i], sort_by) = SortValue(cert_ids[j], sort_by))
            => PositionOf(page, cert_ids[i]) < PositionOf(page, cert_ids[j])

\* C19 as stated: the farmer's whole list sorted ascending by a key, read
\* back to front, is the list sorted descending by that key, also when
\* certificates share the key value.
C19_ReversedAscendingIsDescending ==
    [][last'.op = "list_certificates_by_farmer"
          => \A sort_by \in SortBy :
                ListCertificatesByFarmer("u1", 0, U32Max, sort_by, FALSE)
                    => Reverse(last'.page) =
                           list_certificates_by_farmer(Store, "u1", 0, U32Max,
                                                       sort_by, TRUE).page
      ]_vars

\* C19 amended: the farmer's whole list sorted ascending by a key, read back
\* to front, is the list sorted descending by that key when no two of the
\* certificates share the key value; certificates that share it keep the
\* order of the index list in both directions.
C19_ReversedWhenKeysDistinct ==
    [][(last'.op = "list_certificates_by_farmer" /\ last'.res = "Ok"
           /\ Len(last'.page) = last'.total)
          => \A sort_by \in SortBy, is_descending \in BOOLEAN :
                ListCertificatesByFarmer("u1", 0, U32Max, sort_by,
                                         is_descending)
                    => LET cert_ids == GetList(Store, TRUE, "u1")
                           other ==
                               list_certificates_by_farmer(
                                   Store, "u1", 0, U32Max, sort_by,
                                   ~is_descending).page
                       IN /\ DistinctSortValues(cert_ids, sort_by)
                                => Reverse(last'.page) = other
                          /\ TiesInListOrder(cert_ids, last'.page, sort_by)
      ]_vars

\* three certificates that are not in id order in the index list were
\* listed in id order
C19_Witness ==
    /\ last.op = "list_certificates_by_farmer"
    /\ last.res = "Ok"
    /\ Len(last.page) >= 3
    /\ last.page[1] < last.page[2]
    /\ last.page[2] < last.page[3]
    /\ GetList(Store, TRUE, "u1")[1] > GetList(Store, TRUE, "u1")[2]

\* the ids of the farmer's index list, in list order, whose record has
\* min_tons <= co2e_tons <= max_tons
IdsInRange(farmer_address, min_tons, max_tons) ==
    LET InRange(id) == /\ certificates[id].co2e_tons >= min_tons
                       /\ certificates[id].co2e_tons <= max_tons
    IN SelectSeq(GetList(Store, TRUE, farmer_address), InRange)

\* C20: what filter_by_co2e_range(farmer, min_tons, max_tons, offset, limit)
\* returns is a page of the ids of the farmer's list whose record has
\* min_tons <= co2e_tons <= max_tons, and a total that is the number of
\* those ids, which is the number of the farmer's live records in the range.
C20_FilterPagesOverRange ==
    [][(last'.op = "filter_by_co2e_range" /\ last'.res = "Ok")
          => \A range \in Ranges, window \in Windows :
                FilterByCo2eRange("u1", range[1], range[2], window[1],
                                  window[2])
                    => LET kept == IdsInRange("u1", range[1], range[2])
                           offset == window[1]
                           limit == window[2]
                       IN /\ last'.total = Len(kept)
                          /\ last'.total =
                                 Cardinality(
                                     {id \in LiveIds :
                                        /\ certificates[id].farmer_address = "u1"
                                        /\ certificates[id].co2e_tons >= range[1]
                                        /\ certificates[id].co2e_tons <= range[2]})
                          /\ last'.page =
                                 SubSeq(kept, offset + 1,
                                        Min(offset + limit, Len(kept)))
      ]_vars

\* two of a farmer's three certificates are in the range and the second of
\* them was returned as a page
C20_Witness ==
    /\ last.op = "filter_by_co2e_range"
    /\ last.res = "Ok"
    /\ Len(GetList(Store, TRUE, "u1")) = 3
    /\ last.total = 2
    /\ Len(last.page) = 1
    /\ last.page[1] # GetList(Store, TRUE, "u1")[2]

C22_BurnIsPermanent ==
    [][(last.op = "burn_certificate" /\ last.res = "Ok")
          => ~(/\ Has(certificates', last.id)
               /\ certificates'[last.id] = last.rec
               /\ Has(certificateOwner', last.id))
      ]_vars

\* C23: a mint_certificate that the record's verifier has authorized and
\* whose record has hectares_not_burned = 0 or co2e_tons = 0 fails with
\* InvalidInput having stored nothing: no record, owner, index entry or
\* counter changes and no token is minted through the bridge.
C23_ZeroMeasureIsInvalidInput ==
    [][last'.op = "mint_certificate"
          => \A auth \in Signers, id \in BridgeIds,
                record \in VerificationRecord :
                (/\ record.verifier_address \in auth
                 /\ (record.hectares_not_burned = 0 \/ record.co2e_tons = 0)
                 /\ MintCertificate(auth, id, record))
                    => /\ last'.res = "InvalidInput"
                       /\ ~last'.wrote
                       /\ last'.bridge = "none"
                       /\ UNCHANGED storeVars
      ]_vars

\* with the bridge configured and the ledger administered by the registry, a
\* mint of an id that has no record was turned down as invalid input
C23_Witness ==
    /\ last.op = "mint_certificate"
    /\ last.res = "InvalidInput"
    /\ tokenContractId = Token
    /\ tokenAdmin = Registry
    /\ ~Has(certificates, last.id)
    /\ \A a \in Users : balances[a] = 0

\* C24 as stated: a mint_certificate(id, record) that the record's verifier
\* has authorized, for an id that has a live record, fails with
\* AlreadyExists and leaves the storage as it was.
C24_LiveIdIsAlreadyExists ==
    [][(last'.op = "mint_certificate" /\ Has(certificates, last'.id))
          => \A auth \in Signers, record \in RegistryRecords :
                (/\ record.verifier_address \in auth
                 /\ MintCertificate(auth, last'.id, record))
                    => /\ last'.res = "AlreadyExists"
                       /\ UNCHANGED storeVars
      ]_vars

\* C24 amended: a mint_certificate(id, record) that the record's verifier
\* has authorized, for an id that has a live record, fails and leaves the
\* existing record, its owner, both index lists and both counters as they
\* were, the id being in its farmer's and its verifier's list once; the
\* failure is AlreadyExists when the new record has hectares_not_burned > 0
\* and co2e_tons > 0, and InvalidInput when it has not.
C24_LiveIdIsRefused ==
    [][(last'.op = "mint_certificate" /\ Has(certificates, last'.id))
          => \A auth \in Signers, record \in RegistryRecords :
                (/\ record.verifier_address \in auth
                 /\ MintCertificate(auth, last'.id, record))
                    => LET id == last'.id
                           live == certificates[id]
                       IN /\ last'.res =
                                IF record.hectares_not_burned = 0
                                   \/ record.co2e_tons = 0
                                THEN "InvalidInput"
                                ELSE "AlreadyExists"
                          /\ ~last'.wrote
                          /\ UNCHANGED storeVars
                          /\ Occurrences(farmerCertList'[live.farmer_address],
                                         id) = 1
                          /\ Occurrences(
                                 verifierCertList'[live.verifier_address],
                                 id) = 1
      ]_vars

\* a certificate that has changed hands was minted again and the call was
\* turned down with AlreadyExists, while another certificate is live too
C24_Witness ==
    /\ last.op = "mint_certificate"
    /\ last.res = "AlreadyExists"
    /\ Has(certificates, last.id)
    /\ certificateOwner[last.id] # certificates[last.id].farmer_address
    /\ totalCertificates = 2

\* C25: a transfer_certificate(id, from, to) that from has authorized, on a
\* live certificate whose stored owner is not from, fails with NotOwner and
\* leaves the owner mapping (and all other storage) as it was.
C25_NotOwnerCannotTransfer ==
    [][(last'.op = "transfer_certificate" /\ Has(certificates, last'.id))
          => \A auth \in Signers, from \in Users, to \in Users :
                (/\ from \in auth
                 /\ certificateOwner[last'.id] # from
                 /\ TransferCertificate(auth, last'.id, from, to))
                    => /\ last'.res = "NotOwner"
                       /\ certificateOwner' = certificateOwner
                       /\ UNCHANGED storeVars
      ]_vars

\* the farmer of a certificate that has been transferred away tried to
\* transfer it and was turned down
C25_Witness ==
    /\ last.op = "transfer_certificate"
    /\ last.res = "NotOwner"
    /\ Has(certificates, last.id)
    /\ certificateOwner[last.id] # certificates[last.id].farmer_address

\* C26: a successful transfer_certificate(id, from, to) sets
\* CertificateOwner(id) to `to` and changes nothing else: the records, every
\* farmer and verifier index list, TotalCertificates, TotalCO2e and the
\* owners of the other ids are as before, so the id stays in the list of
\* the record's farmer and enters no list of the new owner.
C26_TransferChangesOwnerOnly ==
    [][(last'.op = "transfer_certificate" /\ last'.res = "Ok")
          => \A auth \in Signers, from \in Users, to \in Users :
                TransferCertificate(auth, last'.id, from, to)
                    => LET id == last'.id
                           farmer == certificates[id].farmer_address
                       IN /\ certificateOwner' =
                                 [certificateOwner EXCEPT ![id] = to]
                          /\ certificates' = certificates
                          /\ farmerCertList' = farmerCertList
                          /\ verifierCertList' = verifierCertList
                          /\ totalCertificates' = totalCertificates
                          /\ totalCO2e' = totalCO2e
                          /\ admin' = admin
                          /\ tokenContractId' = tokenContractId
                          /\ tokenAdmin' = tokenAdmin
                          /\ balances' = balances
                          /\ allowances' = allowances
                          /\ Occurrences(farmerCertList'[farmer], id) = 1
                          /\ to # farmer =>
                                Occurrences(GetList(Store, TRUE, to), id) = 0
      ]_vars

\* a certificate is owned by an address that is not its farmer, after a
\* transfer, while it is listed under the farmer and the new owner has a
\* certificate list of their own without it
C26_Witness ==
    /\ last.op = "transfer_certificate"
    /\ last.res = "Ok"
    /\ certificateOwner[last.id] # last.rec.farmer_address
    /\ Occurrences(GetList(Store, TRUE, last.rec.farmer_address), last.id) = 1
    /\ GetList(Store, TRUE, certificateOwner[last.id]) # <<>>
    /\ Occurrences(GetList(Store, TRUE, certificateOwner[last.id]), last.id) = 0

C28_AdminIsWriteOnce ==
    [][admin # NoAddress
          => /\ admin' = admin
             /\ last'.op = "initialize"
                  => /\ last'.res = "AlreadyExists"
                     /\ ~last'.wrote
                     /\ UNCHANGED storeVars
      ]_vars

\* an initialize was turned down on a registry that has an admin and holds
\* a certificate
C28_Witness ==
    /\ last.op = "initialize"
    /\ last.res = "AlreadyExists"
    /\ admin = "u2"
    /\ totalCertificates = 1

\* C29: TokenContractId changes only in a successful set_token_contract_id
\* whose admin argument is the stored Admin and has authorized the call; a
\* set_token_contract_id by an authorized address that is not the stored
\* Admin, or made before initialize, fails with NotAuthorized and leaves
\* TokenContractId (and all other storage) as it was.
C29_OnlyAdminSetsTokenContract ==
    [][/\ tokenContractId' # tokenContractId
          => /\ admin # NoAddress
             /\ \E auth \in Signers, t \in TokenRefs :
                   /\ admin \in auth
                   /\ SetTokenContractId(auth, admin, t)
                   /\ last'.res = "Ok"
                   /\ tokenContractId' = t
       /\ last'.op = "set_token_contract_id"
          => \A auth \in Signers, a \in Users, t \in TokenRefs :
                (/\ a \in auth
                 /\ a # admin
                 /\ SetTokenContractId(auth, a, t))
                    => /\ last'.res = "NotAuthorized"
                       /\ ~last'.wrote
                       /\ UNCHANGED storeVars
      ]_vars

\* an address that is not the admin tried to retarget a bridge that the
\* admin had configured, and was turned down
C29_Witness ==
    /\ last.op = "set_token_contract_id"
    /\ last.res = "NotAuthorized"
    /\ admin # NoAddress
    /\ tokenContractId = Token

\* C30: the total supply, the sum of all balances, changes only by growing
\* in a successful mint that the stored admin of the ledger has authorized;
\* transfer, approve and transfer_from leave it as it is, and a mint on a
\* ledger that has not been initialized fails with NotInitialized.
C30_SupplyGrowsOnlyByAdminMint ==
    [][LET before == SumBalances(balances, Users)
           after == SumBalances(balances', Users)
       IN /\ after # before
             => /\ after > before
                /\ tokenAdmin # NoAddress
                /\ \E auth \in Signers, to \in Users, amount \in Amounts :
                      /\ tokenAdmin \in auth
                      /\ amount = after - before
                      /\ TokenMint(auth, to, amount)
                      /\ last'.res = "Ok"
          /\ last'.op \in {"transfer", "approve", "transfer_from"}
             => after = before
          /\ (last'.op = "mint" /\ tokenAdmin = NoAddress)
             => /\ last'.res = "NotInitialized"
                /\ UNCHANGED storeVars
      ]_vars

\* the admin's mint has raised the supply, which two holders share
C30_Witness ==
    /\ last.op = "mint"
    /\ last.res = "Ok"
    /\ balances["u1"] > 0
    /\ balances["u2"] > 0

\* C31: the balance of an address goes down only in a transfer that the
\* address itself has authorized, or in a transfer_from authorized by a
\* spender whose allowance from that address is at least the amount; a
\* transfer_from that succeeds has the spender's authorization, which is
\* all the authorization it needs.
C31_DebitNeedsOwnerOrAllowance ==
    [][\A a \in Users :
          balances'[a] < balances[a]
             => LET amount == balances[a] - balances'[a]
                IN \/ /\ last'.op = "transfer"
                      /\ last'.res = "Ok"
                      /\ \E to \in Users : TokenTransfer({a}, a, to, amount)
                   \/ /\ last'.op = "transfer_from"
                      /\ last'.res = "Ok"
                      /\ \E spender \in Users, to \in Users :
                            /\ allowance(Store, a, spender) >= amount
                            /\ TokenTransferFrom({spender}, spender, a, to,
                                                 amount)
      ]_vars

\* a delegate moved tokens out of the balance of an owner who did not sign
\* that call
C31_Witness ==
    /\ last.op = "transfer_from"
    /\ last.res = "Ok"
    /\ last.by = "u2"
    /\ balance(Store, "u1") < balance(Store, "u2")
    /\ allowance(Store, "u1", "u2") > 0

\* C32: in every state the ledger reaches, mint, transfer and transfer_from
\* called, with the authorization they require, with amount <= 0 fail with InvalidAmount and change no
\* balance and no allowance; approve fails with InvalidAmount for
\* amount < 0 only: approve with amount 0 succeeds and sets the allowance
\* to 0.
C32_NonPositiveAmounts ==
    /\ \A to \in Users, amount \in {x \in Amounts : x <= 0} :
          tokenAdmin # NoAddress
             => LET r == mint(Store, {tokenAdmin}, to, amount)
                IN r.res = "InvalidAmount" /\ Committed(r) = Store
    /\ \A from \in Users, to \in Users,
          amount \in {x \in Amounts : x <= 0} :
          LET r == transfer(Store, {from}, from, to, amount)
          IN r.res = "InvalidAmount" /\ Committed(r) = Store
    /\ \A spender \in Users, from \in Users, to \in Users,
          amount \in {x \in Amounts : x <= 0} :
          LET r == transfer_from(Store, {spender}, spender, from, to, amount)
          IN r.res = "InvalidAmount" /\ Committed(r) = Store
    /\ \A from \in Users, spender \in Users, amount \in Amounts :
          LET r == approve(Store, {from}, from, spender, amount)
          IN IF amount < 0
             THEN r.res = "InvalidAmount" /\ Committed(r) = Store
             ELSE /\ r.res = "Ok"
                  /\ allowance(Committed(r), from, spender) = amount
                  /\ Committed(r).balances = balances

\* an owner who holds tokens has set a delegate's allowance to 0
C32_Witness ==
    /\ last.op = "approve"
    /\ last.res = "Ok"
    /\ allowance(Store, "u1", "u2") = 0
    /\ balance(Store, "u1") > 0

\* C33: a burn_certificate(id) for an id that has no live record, because
\* it was never minted or because it was burned, fails with NotFound,
\* whoever signed it, and changes no record, owner, index list or counter.
C33_BurnOfAbsentIsNotFound ==
    [][(last'.op = "burn_certificate" /\ ~Has(certificates, last'.id))
          => /\ last'.res = "NotFound"
             /\ ~last'.wrote
             /\ UNCHANGED storeVars
      ]_vars

\* a burn found no record under its id while another certificate is live
\* and counted
C33_Witness ==
    /\ last.op = "burn_certificate"
    /\ last.res = "NotFound"
    /\ ~Has(certificates, last.id)
    /\ totalCertificates = 1
    /\ totalCO2e > 0

\* C34: a successful set_token_contract_id(admin, token_ref) leaves
\* TokenContractId equal to token_ref whatever it was before and changes
\* nothing else, and the same call made again succeeds and leaves the state
\* as the first call left it.
C34_SetTokenContractIsIdempotent ==
    [][(last'.op = "set_token_contract_id" /\ last'.res = "Ok")
          => \A auth \in Signers, a \in Users, t \in TokenRefs :
                SetTokenContractId(auth, a, t)
                    => LET once == set_token_contract_id(Store, auth, a, t)
                           twice == set_token_contract_id(once.st, auth, a, t)
                       IN /\ tokenContractId' = t
                          /\ once.st = [Store EXCEPT !.tokenContractId = t]
                          /\ twice.res = "Ok"
                          /\ twice.st = once.st
      ]_vars

\* the admin retargeted a bridge that had already minted tokens to a
\* reference other than the ledger's
C34_Witness ==
    /\ last.op = "set_token_contract_id"
    /\ last.res = "Ok"
    /\ tokenContractId = Bogus
    /\ \E a \in Users : balance(Store, a) > 0

\* C35: for every (owner, spender), what the successful transfer_from calls
\* of the spender have moved out of the owner's balance since the last
\* successful approve of the pair is never more than the amount of that
\* approve, whatever other calls were made in between; what is left of it
\* is the allowance.
C35_SpentWithinApproved ==
    \A p \in Users \X Users :
        /\ spending[p].spent <= spending[p].granted
        /\ allowance(Store, p[1], p[2]) =
               spending[p].granted - spending[p].spent

\* a delegate has drawn twice on an approval of more than it has drawn
C35_Witness ==
    /\ last.op = "transfer_from"
    /\ last.res = "Ok"
    /\ spending[<<"u1", "u2">>].spent = 2
    /\ spending[<<"u1", "u2">>].granted > 2

\* the bridge is in place: the registry mints into the deployed ledger, whose
\* admin it is
BridgeInPlace ==
    /\ admin # NoAddress
    /\ tokenContractId = Token
    /\ tokenAdmin = Registry

\* C36: with the bridge configured before the first certificate is minted,
\* every bridged mint succeeding and no direct mint on the ledger, the
\* total token supply equals TotalCO2e after any sequence of
\* mint_certificate, transfer_certificate, burn_certificate, transfer,
\* approve and transfer_from calls: each such call, successful and made
\* with the bridge in place, takes a state where the two are equal to a
\* state where they are equal.
C36_SupplyEqualsTotalCO2e ==
    [][(/\ BridgeInPlace
        /\ SumBalances(balances, Users) = totalCO2e
        /\ last'.res = "Ok"
        /\ last'.op \in {"mint_certificate", "transfer_certificate",
                         "burn_certificate", "transfer", "approve",
                         "transfer_from"})
          => SumBalances(balances', Users) = totalCO2e'
      ]_vars

\* C37: for every co2e_tons that passes the validation of mint_certificate
\* (any unsigned 128-bit value above 0), the amount the bridge hands to the
\* ledger's mint, the value cast to the signed 128-bit type, is equal to
\* co2e_tons and positive.
C37_CastKeepsTons ==
    [][(last'.op = "mint_certificate" /\ last'.bridge # "none")
          => \A auth \in Signers, record \in VerificationRecord :
                MintCertificate(auth, last'.id, record)
                    => LET amount == as_i128(record.co2e_tons)
                       IN amount = record.co2e_tons /\ amount > 0
      ]_vars

\* C38: list_certificates_by_farmer, list_certificates_by_verifier and
\* filter_by_co2e_range return for every unsigned 32-bit offset and limit:
\* none of them fails or traps, also when offset is below the length of
\* the list and offset + limit is above the 32-bit range.
C38_QueriesNeverTrap ==
    [][last'.op \in {"list_certificates_by_farmer",
                     "list_certificates_by_verifier",
                     "filter_by_co2e_range"}
          => last'.res = "Ok"
      ]_vars

\* the sequence is a rearrangement of the other: the same ids, each once
IsPermutation(seq, cert_ids) ==
    /\ Len(seq) = Len(cert_ids)
    /\ \A i \in 1..Len(cert_ids) : Occurrences(seq, cert_ids[i]) = 1

\* the sort values of the sequence do not fall (ascending) or do not rise
\* (descending)
InSortOrder(seq, sort_by, is_descending) ==
    \A i \in 1..(Len(seq) - 1) :
        IF is_descending
        THEN SortValue(seq[i], sort_by) >= SortValue(seq[i + 1], sort_by)
        ELSE SortValue(seq[i], sort_by) <= SortValue(seq[i + 1], sort_by)

\* C39: in every state the registry reaches, the ids that
\* list_certificates_by_farmer paginates are a permutation of the farmer's
\* index list whose sort keys (co2e_tons, hectares_not_burned
\* or the id, as sort_by says) are non-decreasing when descending is false
\* and non-increasing when it is true, and a page is a slice of that
\* sequence: ids 1..3 with offset 1, limit 2, CertificateId ascending give
\* ([2, 3], 3).
C39_SortedPermutation ==
    \A sort_by \in SortBy, is_descending \in BOOLEAN :
        LET cert_ids == GetList(Store, TRUE, "u1")
            sorted_ids == sort_certificates(Store, cert_ids, sort_by,
                                            is_descending)
            whole == list_certificates_by_farmer(Store, "u1", 0, U32Max,
                                                 sort_by, is_descending)
            window == list_certificates_by_farmer(Store, "u1", 1, 2,
                                                  sort_by, is_descending)
        IN /\ IsPermutation(sorted_ids, cert_ids)
           /\ InSortOrder(sorted_ids, sort_by, is_descending)
           /\ whole = Page(sorted_ids, Len(cert_ids))
           /\ window = Page(SubSeq(sorted_ids, 2, Min(3, Len(sorted_ids))),
                            Len(cert_ids))
           /\ (/\ {cert_ids[i] : i \in 1..Len(cert_ids)} = {1, 2, 3}
               /\ sort_by = "CertificateId"
               /\ ~is_descending)
                 => window = Page(<<2, 3>>, 3)

\* three certificates that the index list holds in another order were
\* listed from the highest id to the lowest
C39_Witness ==
    /\ last.op = "list_certificates_by_farmer"
    /\ last.res = "Ok"
    /\ last.page = <<3, 2, 1>>
    /\ GetList(Store, TRUE, "u1") = <<1, 3, 2>>

\* C40: in every state the registry reaches, every live certificate has an
\* owner entry and a burn_certificate of it that its current owner has
\* authorized succeeds, removing the record and the owner: it does not fail
\* with NotFound for want of an owner entry, so the owner can always retire
\* a live certificate.
C40_OwnerCanAlwaysBurn ==
    \A id \in LiveIds :
        /\ Has(certificateOwner, id)
        /\ LET r == burn_certificate(Store, {certificateOwner[id]}, id)
           IN /\ r.res = "Ok"
              /\ ~Has(r.st.certificates, id)
              /\ ~Has(r.st.certificateOwner, id)

\* an owner who is not the farmer has retired a certificate and still owns
\* a live one
C40_Witness ==
    /\ Burned
    /\ last.by # last.rec.farmer_address
    /\ LiveIds # {}
    /\ \A id \in LiveIds : certificateOwner[id] = last.by

====
